---------------------------- MODULE Spec2Model ----------------------------
(***************************************************************************)
(* Model of scripts/scrape_creations_stats_to_csv.py: the numeric token    *)
(* parser (digits_to_int), the platform normaliser (normalize_platform),   *)
(* the JSON stats scanner (extract_rows_from_api_payload), the text block  *)
(* parser (find_platform_block) and the coordinator (scrape_one).          *)
(*                                                                         *)
(* Representation.  A Python str is a sequence of one-character strings,   *)
(* so that regular expressions, str.lower() and substring tests are        *)
(* computed character by character.  A Python value (a node of a decoded   *)
(* JSON tree) is a record [t, n, s, items]: t is the Python type, n the    *)
(* number of an int or bool, s the characters of a str, items the          *)
(* elements of a list or the <<key, value>> pairs of a dict in insertion   *)
(* order.  An optional count (int or None) is an integer, None being -1:   *)
(* digits_to_int never returns a negative number.                          *)
(***************************************************************************)
EXTENDS Integers, Sequences, FiniteSets, TLC

VARIABLES
    at,            \* position in the operation being run
    url,           \* scrape_one: the parsed url argument
    run_date,      \* scrape_one: date.today().isoformat()
    api_payload,   \* scrape_one: api_payload
    text,          \* scrape_one / find_platform_block: text
    pc,            \* scrape_one: pc (the PC block)
    xbox,          \* scrape_one: xbox (the Xbox block)
    rows,          \* scrape_one: rows
    payload_rows,  \* history: what extract_rows_from_api_payload returned, <<>> if not run
    text_rows,     \* history: the rows the text stage appended, <<>> if not run
    stages,        \* history: the stages that ran, in order
    fpb_calls,     \* history: number of find_platform_block calls so far
    payload,       \* extract_rows_from_api_payload: payload
    scan_rows,     \* extract_rows_from_api_payload: the returned list
    platform_label,\* find_platform_block: platform_label
    block          \* find_platform_block: the returned value

vars == <<at, url, run_date, api_payload, text, pc, xbox, rows, payload_rows,
          text_rows, stages, fpb_calls, payload, scan_rows, platform_label, block>>

-----------------------------------------------------------------------------
(* Bounds of the input sets.                                               *)

\* number of platform blocks in an input text
MaxBlocks == 2
\* number of wrappers (dict or list) put around a node of an input payload
MaxDepth == 3
\* number of items in a platform-stat section of an input payload
MaxItems == 2

-----------------------------------------------------------------------------
(* Python None for an optional count.                                      *)
None == -1

(* Characters.                                                             *)
UpperCase == <<"A","B","C","D","E","F","G","H","I","J","K","L","M",
               "N","O","P","Q","R","S","T","U","V","W","X","Y","Z">>
LowerCase == <<"a","b","c","d","e","f","g","h","i","j","k","l","m",
               "n","o","p","q","r","s","t","u","v","w","x","y","z">>
Digits == <<"0","1","2","3","4","5","6","7","8","9">>

Range(f) == {f[i] : i \in DOMAIN f}
SetMin(S) == CHOOSE x \in S : \A y \in S : x <= y

\* str.lower() on one character, and on a str
LowerOf == [c \in Range(UpperCase) |->
               LowerCase[CHOOSE i \in DOMAIN UpperCase : UpperCase[i] = c]]
LowerChar(c) == IF c \in DOMAIN LowerOf THEN LowerOf[c] ELSE c
Lower(s) == [i \in DOMAIN s |-> LowerChar(s[i])]

\* \d, \w and \s of the re module, on the characters of the input alphabet
DigitChars == Range(Digits)
LetterChars == Range(UpperCase) \cup Range(LowerCase)
IsDigit(c) == c \in DigitChars
IsWordChar(c) == c \in LetterChars \/ IsDigit(c) \/ c = "_"
IsSpace(c) == c \in {" ", "\n", "\t", "\r"}

\* str.strip()
RECURSIVE LStrip(_)
LStrip(s) == IF s # <<>> /\ IsSpace(Head(s)) THEN LStrip(Tail(s)) ELSE s
RECURSIVE RStrip(_)
RStrip(s) ==
    IF s # <<>> /\ IsSpace(s[Len(s)]) THEN RStrip(SubSeq(s, 1, Len(s) - 1)) ELSE s
Strip(s) == RStrip(LStrip(s))

\* s[i:i+len(w)] == w
MatchAt(s, i, w) ==
    /\ i >= 1
    /\ i + Len(w) - 1 <= Len(s)
    /\ \A k \in 1..Len(w) : s[i + k - 1] = w[k]
\* the same under re.IGNORECASE
MatchAtCI(s, i, w) ==
    /\ i >= 1
    /\ i + Len(w) - 1 <= Len(s)
    /\ \A k \in 1..Len(w) : LowerChar(s[i + k - 1]) = LowerChar(w[k])
\* w in s
Contains(s, w) == \E i \in 1..(Len(s) + 1) : MatchAt(s, i, w)

\* sep.join(parts)
RECURSIVE Join(_, _)
Join(sep, parts) ==
    IF parts = <<>> THEN <<>>
    ELSE IF Len(parts) = 1 THEN parts[1]
    ELSE parts[1] \o sep \o Join(sep, Tail(parts))

-----------------------------------------------------------------------------
(* Python values.                                                          *)
PyNone == [t |-> "None", n |-> 0, s |-> <<>>, items |-> <<>>]
PyInt(k) == [t |-> "int", n |-> k, s |-> <<>>, items |-> <<>>]
PyBool(b) == [t |-> "bool", n |-> IF b THEN 1 ELSE 0, s |-> <<>>, items |-> <<>>]
PyStr(cs) == [t |-> "str", n |-> 0, s |-> cs, items |-> <<>>]
PyList(vs) == [t |-> "list", n |-> 0, s |-> <<>>, items |-> vs]
PyDict(kvs) == [t |-> "dict", n |-> 0, s |-> <<>>, items |-> kvs]

IsDict(v) == v.t = "dict"
IsList(v) == v.t = "list"

\* bool(v): the truth value the `or` chains of the scanner test
Truthy(v) ==
    CASE v.t = "None" -> FALSE
      [] v.t = "int" -> v.n # 0
      [] v.t = "bool" -> v.n = 1
      [] v.t = "str" -> v.s # <<>>
      [] OTHER -> v.items # <<>>

\* k in d, d.get(k), d.values()
HasKey(d, k) == \E i \in DOMAIN d.items : d.items[i][1] = k
Get(d, k) ==
    IF HasKey(d, k)
    THEN d.items[CHOOSE i \in DOMAIN d.items : d.items[i][1] = k][2]
    ELSE PyNone
Values(d) == [i \in DOMAIN d.items |-> d.items[i][2]]

\* str(k) of an int
RECURSIVE NatStr(_)
NatStr(k) == IF k < 10 THEN <<Digits[k + 1]>> ELSE NatStr(k \div 10) \o <<Digits[(k % 10) + 1]>>
IntStr(k) == IF k < 0 THEN <<"-">> \o NatStr(0 - k) ELSE NatStr(k)

\* repr(v); the strings of the input sets hold no quote and no backslash
RECURSIVE Repr(_)
Repr(v) ==
    CASE v.t = "None" -> <<"N","o","n","e">>
      [] v.t = "int" -> IntStr(v.n)
      [] v.t = "bool" -> IF v.n = 1 THEN <<"T","r","u","e">> ELSE <<"F","a","l","s","e">>
      [] v.t = "str" -> <<"'">> \o v.s \o <<"'">>
      [] v.t = "list" ->
            <<"[">> \o Join(<<",", " ">>, [i \in DOMAIN v.items |-> Repr(v.items[i])]) \o <<"]">>
      [] OTHER ->
            <<"{">> \o Join(<<",", " ">>,
                            [i \in DOMAIN v.items |->
                                <<"'">> \o v.items[i][1] \o <<"'", ":", " ">> \o Repr(v.items[i][2])])
                   \o <<"}">>
\* str(v)
Str(v) == IF v.t = "str" THEN v.s ELSE Repr(v)

-----------------------------------------------------------------------------
(* digits_to_int                                                           *)

\* re.sub(r"[^\d]", "", s)
OnlyDigits(s) == SelectSeq(s, IsDigit)
ValueOf == [c \in DigitChars |-> (CHOOSE i \in DOMAIN Digits : Digits[i] = c) - 1]
DigitValue(c) == ValueOf[c]
\* int(n) of a non-empty string of digits
RECURSIVE ParseInt(_)
ParseInt(ds) ==
    IF ds = <<>> THEN 0
    ELSE ParseInt(SubSeq(ds, 1, Len(ds) - 1)) * 10 + DigitValue(ds[Len(ds)])

digits_to_int(v) ==
    IF v.t = "None" THEN None
    ELSE LET n == OnlyDigits(Str(v)) IN IF n # <<>> THEN ParseInt(n) ELSE None

-----------------------------------------------------------------------------
(* normalize_platform: "PC", "Xbox" or "" for None                         *)
NoPlatform == ""

KwComputer == <<"c","o","m","p","u","t","e","r">>
KwPc == <<"p","c">>
KwWindows == <<"w","i","n","d","o","w","s">>
KwSteam == <<"s","t","e","a","m">>
KwXbox == <<"x","b","o","x">>

normalize_platform(value) ==
    IF value.t = "None" THEN NoPlatform
    ELSE LET v == Lower(Strip(Str(value))) IN
         IF \E x \in {KwComputer, KwPc, KwWindows, KwSteam} : Contains(v, x) THEN "PC"
         ELSE IF Contains(v, KwXbox) THEN "Xbox"
         ELSE NoPlatform

-----------------------------------------------------------------------------
(* find_platform_block                                                     *)

\* an optional block: None, or a dict of three optional counts
NoneBlock == [some |-> FALSE, likes |-> None, bookmarks |-> None, plays |-> None]
SomeBlock(l, b, p) == [some |-> TRUE, likes |-> l, bookmarks |-> b, plays |-> p]

WXbox == <<"X","b","o","x">>
WComputer == <<"C","o","m","p","u","t","e","r">>
WPC == <<"P","C">>
WLikes == <<"L","i","k","e","s">>
WBookmarks == <<"B","o","o","k","m","a","r","k","s">>
WPlays == <<"P","l","a","y","s">>
WDashes == <<"-","-","-">>

\* the end of a greedy \s* that starts at index i
RECURSIVE SkipSpace(_, _)
SkipSpace(s, i) == IF i <= Len(s) /\ IsSpace(s[i]) THEN SkipSpace(s, i + 1) ELSE i
\* the end of a greedy [\d,]+ that starts at index i
RECURSIVE SkipCount(_, _)
SkipCount(s, i) ==
    IF i <= Len(s) /\ (IsDigit(s[i]) \/ s[i] = ",") THEN SkipCount(s, i + 1) ELSE i

\* \b at index i: between s[i-1] and s[i]
WordBoundary(s, i) ==
    (i - 1 >= 1 /\ i - 1 <= Len(s) /\ IsWordChar(s[i - 1]))
        # (i >= 1 /\ i <= Len(s) /\ IsWordChar(s[i]))
\* $ at index i: the end of the string, or just before a final newline
AtEnd(s, i) == i = Len(s) + 1 \/ (i = Len(s) /\ s[i] = "\n")
\* (?=(Xbox|Computer|PC)\b|$) at index i
BlockEndsAt(s, i) ==
    \/ \E m \in {WXbox, WComputer, WPC} :
           MatchAtCI(s, i, m) /\ WordBoundary(s, i + Len(m))
    \/ AtEnd(s, i)

\* m.group(1) of {platform_label}\s*(.*?)(?=(Xbox|Computer|PC)\b|$), or
\* <<FALSE, "">> when the search finds nothing
PlatformBlockText(s, label) ==
    LET starts == {i \in 1..Len(s) : MatchAtCI(s, i, label)} IN
    IF starts = {} THEN <<FALSE, <<>>>>
    ELSE LET from == SkipSpace(s, SetMin(starts) + Len(label))
             to == SetMin({k \in from..(Len(s) + 1) : BlockEndsAt(s, k)})
         IN  <<TRUE, SubSeq(s, from, to - 1)>>

\* after(label): group 1 of {label}\s*([\d,]+|---) in the block, or None
After(blk, label) ==
    LET countAt(i) == SkipSpace(blk, i + Len(label))
        hit(i) == /\ MatchAtCI(blk, i, label)
                  /\ \/ SkipCount(blk, countAt(i)) > countAt(i)
                     \/ MatchAt(blk, countAt(i), WDashes)
        starts == {i \in 1..Len(blk) : hit(i)}
    IN  IF starts = {} THEN PyNone
        ELSE LET q == countAt(SetMin(starts)) IN
             IF SkipCount(blk, q) > q
             THEN PyStr(SubSeq(blk, q, SkipCount(blk, q) - 1))
             ELSE PyStr(WDashes)

\* None if raw in (None, "---") else digits_to_int(raw)
CountOf(raw) == IF raw = PyNone \/ raw = PyStr(WDashes) THEN None ELSE digits_to_int(raw)

find_platform_block(s, label) ==
    LET m == PlatformBlockText(s, label) IN
    IF ~m[1] THEN NoneBlock
    ELSE LET likes == CountOf(After(m[2], WLikes))
             bookmarks == CountOf(After(m[2], WBookmarks))
             plays == CountOf(After(m[2], WPlays))
         IN  IF likes = None /\ bookmarks = None /\ plays = None THEN NoneBlock
             ELSE SomeBlock(likes, bookmarks, plays)

-----------------------------------------------------------------------------
(* extract_rows_from_api_payload                                           *)

\* the keys the scanner looks up
K_platform == <<"p","l","a","t","f","o","r","m">>
K_platformName == <<"p","l","a","t","f","o","r","m","N","a","m","e">>
K_hardware == <<"h","a","r","d","w","a","r","e">>
K_name == <<"n","a","m","e">>
K_code == <<"c","o","d","e">>
K_stats == <<"s","t","a","t","s">>
K_likes == <<"l","i","k","e","s">>
K_likeCount == <<"l","i","k","e","C","o","u","n","t">>
K_totalLikes == <<"t","o","t","a","l","L","i","k","e","s">>
K_bookmarks == <<"b","o","o","k","m","a","r","k","s">>
K_bookmarkCount == <<"b","o","o","k","m","a","r","k","C","o","u","n","t">>
K_favoriteCount == <<"f","a","v","o","r","i","t","e","C","o","u","n","t">>
K_favorites == <<"f","a","v","o","r","i","t","e","s">>
K_plays == <<"p","l","a","y","s">>
K_playCount == <<"p","l","a","y","C","o","u","n","t">>
K_totalPlays == <<"t","o","t","a","l","P","l","a","y","s">>
K_uses == <<"u","s","e","s">>
K_downloadCount == <<"d","o","w","n","l","o","a","d","C","o","u","n","t">>
K_platformStats == <<"p","l","a","t","f","o","r","m","S","t","a","t","s">>
K_statsByPlatform == <<"s","t","a","t","s","B","y","P","l","a","t","f","o","r","m">>
K_platforms == <<"p","l","a","t","f","o","r","m","s">>

LikesKeys == <<K_likes, K_likeCount, K_totalLikes>>
BookmarksKeys == <<K_bookmarks, K_bookmarkCount, K_favoriteCount, K_favorites>>
PlaysKeys == <<K_plays, K_playCount, K_totalPlays, K_uses, K_downloadCount>>
IndicatorKeys == <<K_platform, K_platformName, K_hardware, K_name, K_code>>
SectionKeys == <<K_platformStats, K_statsByPlatform, K_platforms, K_stats>>

\* find_first_int: the first key, in order, that is in data and whose value
\* digits_to_int turns into a number
RECURSIVE find_first_int(_, _)
\* variant: the first key that is in data decides, whatever its value
find_first_int_first_present(data, keys) ==
    IF ~IsDict(data) \/ keys = <<>> THEN None
    ELSE IF HasKey(data, Head(keys)) THEN digits_to_int(Get(data, Head(keys)))
    ELSE find_first_int(data, Tail(keys))
find_first_int(data, keys) ==
    IF ~IsDict(data) \/ keys = <<>> THEN None
    ELSE LET k == Head(keys)
             n == IF HasKey(data, k) THEN digits_to_int(Get(data, k)) ELSE None
         IN  IF n # None THEN n ELSE find_first_int(data, Tail(keys))

\* stats_from: <<likes, bookmarks, plays>>
stats_from(d) ==
    IF ~IsDict(d) THEN <<None, None, None>>
    ELSE <<find_first_int(d, LikesKeys),
           find_first_int(d, BookmarksKeys),
           find_first_int(d, PlaysKeys)>>

\* a or b or ... : the first truthy operand, else the last one
RECURSIVE OrChain(_)
OrChain(vals) ==
    IF Len(vals) = 1 \/ Truthy(Head(vals)) THEN Head(vals) ELSE OrChain(Tail(vals))
\* item.get("platform") or item.get("platformName") or item.get("hardware")
\* or item.get("name") or item.get("code")
Indicator(item) == OrChain([i \in DOMAIN IndicatorKeys |-> Get(item, IndicatorKeys[i])])
\* item.get("stats") if isinstance(item.get("stats"), dict) else item
StatsSource(item) == IF IsDict(Get(item, K_stats)) THEN Get(item, K_stats) ELSE item

\* a row; ident is <<run_date, creation_id, slug, url>>
Row(ident, platform, likes, bookmarks, plays) ==
    [date |-> ident[1], creation_id |-> ident[2], slug |-> ident[3],
     platform |-> platform, plays |-> plays, likes |-> likes,
     bookmarks |-> bookmarks, url |-> ident[4]]

\* rows_by_platform is a dict in insertion order: a sequence of rows with
\* distinct platforms.  rbp[platform] = row replaces the row of a platform
\* that is there, in place, and appends otherwise.
SetItem(rbp, row) ==
    IF \E i \in DOMAIN rbp : rbp[i].platform = row.platform
    THEN [i \in DOMAIN rbp |-> IF rbp[i].platform = row.platform THEN row ELSE rbp[i]]
    ELSE Append(rbp, row)

\* variant: a later put keeps the fields of the earlier row that it has no value for
put_merging(rbp, ident, platform, likes, bookmarks, plays) ==
    IF platform \notin {"PC", "Xbox"} THEN rbp
    ELSE IF likes = None /\ bookmarks = None /\ plays = None THEN rbp
    ELSE IF \E i \in DOMAIN rbp : rbp[i].platform = platform
    THEN LET old == rbp[CHOOSE i \in DOMAIN rbp : rbp[i].platform = platform] IN
         SetItem(rbp, Row(ident, platform,
                          IF likes = None THEN old.likes ELSE likes,
                          IF bookmarks = None THEN old.bookmarks ELSE bookmarks,
                          IF plays = None THEN old.plays ELSE plays))
    ELSE SetItem(rbp, Row(ident, platform, likes, bookmarks, plays))
\* put
put(rbp, ident, platform, likes, bookmarks, plays) ==
    IF platform \notin {"PC", "Xbox"} THEN rbp
    ELSE IF likes = None /\ bookmarks = None /\ plays = None THEN rbp
    ELSE SetItem(rbp, Row(ident, platform, likes, bookmarks, plays))

\* lines 83-92 and 103-112: normalise the item's indicator, take its stats, put
PutNode(rbp, ident, item) ==
    LET st == stats_from(StatsSource(item)) IN
    put(rbp, ident, normalize_platform(Indicator(item)), st[1], st[2], st[3])

\* lines 95-98: one entry k, v of a dict-shaped section
PutEntry(rbp, ident, kv) ==
    LET st == stats_from(IF IsDict(kv[2]) THEN kv[2] ELSE PyDict(<<>>)) IN
    put(rbp, ident, normalize_platform(PyStr(kv[1])), st[1], st[2], st[3])

\* lines 80-92: for item in section (a list)
RECURSIVE KnownList(_, _, _)
\* variant: the item itself is the stats source, a nested "stats" is not looked at
KnownList_item_as_source(rbp, ident, items) ==
    IF items = <<>> THEN rbp
    ELSE LET item == Head(items)
             st == stats_from(item)
         IN  KnownList(IF IsDict(item)
                       THEN put(rbp, ident, normalize_platform(Indicator(item)),
                                st[1], st[2], st[3])
                       ELSE rbp,
                       ident, Tail(items))
KnownList(rbp, ident, items) ==
    IF items = <<>> THEN rbp
    ELSE KnownList(IF IsDict(Head(items)) THEN PutNode(rbp, ident, Head(items)) ELSE rbp,
                   ident, Tail(items))
\* lines 94-98: for k, v in section.items() (a dict)
RECURSIVE KnownDict(_, _, _)
KnownDict(rbp, ident, kvs) ==
    IF kvs = <<>> THEN rbp
    ELSE KnownDict(PutEntry(rbp, ident, Head(kvs)), ident, Tail(kvs))

\* lines 78-98: one known key
KnownSection(rbp, ident, section) ==
    IF IsList(section) THEN KnownList(rbp, ident, section.items)
    ELSE IF IsDict(section) THEN KnownDict(rbp, ident, section.items)
    ELSE rbp

\* lines 76-98: the known-shape pass
RECURSIVE KnownKeys(_, _, _, _)
KnownKeys(rbp, ident, p, keys) ==
    IF keys = <<>> THEN rbp
    ELSE KnownKeys(KnownSection(rbp, ident, Get(p, Head(keys))), ident, p, Tail(keys))
KnownPass(rbp, ident, p) ==
    IF IsDict(p) THEN KnownKeys(rbp, ident, p, SectionKeys) ELSE rbp

\* lines 101-117: walk, and its loops over node.values() and over a list
RECURSIVE walk(_, _, _)
RECURSIVE WalkAll(_, _, _)
\* variant: lists are not descended into
walk_dicts_only(rbp, ident, node) ==
    IF IsDict(node) THEN WalkAll(PutNode(rbp, ident, node), ident, Values(node))
    ELSE rbp
walk(rbp, ident, node) ==
    IF IsDict(node) THEN WalkAll(PutNode(rbp, ident, node), ident, Values(node))
    ELSE IF IsList(node) THEN WalkAll(rbp, ident, node.items)
    ELSE rbp
WalkAll(rbp, ident, nodes) ==
    IF nodes = <<>> THEN rbp
    ELSE WalkAll(walk(rbp, ident, Head(nodes)), ident, Tail(nodes))

\* line 120: [rows_by_platform[p] for p in ["PC", "Xbox"] if p in rows_by_platform]
\* variant: list(rows_by_platform.values()), the rows in insertion order
InInsertionOrder(rbp) == rbp
InPlatformOrder(rbp) ==
    SelectSeq(rbp, LAMBDA r : r.platform = "PC")
        \o SelectSeq(rbp, LAMBDA r : r.platform = "Xbox")

extract_rows_from_api_payload(p, ident) ==
    InPlatformOrder(walk(KnownPass(<<>>, ident, p), ident, p))

-----------------------------------------------------------------------------
(* Input payloads: decoded JSON trees.                                     *)

S_PC == <<"P","C">>
S_pc == <<"p","c">>
S_Xbox == <<"X","b","o","x">>
S_xbox == <<"x","b","o","x">>
S_XboxSeriesX == <<"X","b","o","x"," ","S","e","r","i","e","s"," ","X">>
S_SteamDeck == <<"S","t","e","a","m"," ","D","e","c","k">>
S_Switch == <<"S","w","i","t","c","h">>
S_Windows11 == <<"W","i","n","d","o","w","s"," ","1","1">>
S_Computer == <<"C","o","m","p","u","t","e","r">>
S_142488 == <<"1","4","2",",","4","8","8">>
S_1234 == <<"1",",","2","3","4">>
S_75599 == <<"7","5",",","5","9","9">>
S_data == <<"d","a","t","a">>
S_other == <<"o","t","h","e","r">>
S_count == <<"c","o","u","n","t">>

\* sequences over S of length lo..hi
SeqsOf(S, lo, hi) == UNION {[1..k -> S] : k \in lo..hi}
\* a dict from keys and values given in order
Obj(kvs) == PyDict(kvs)

\* objects with a platform indicator and stats, in the layouts the scanner reads
NodePC == Obj(<< <<K_platform, PyStr(S_PC)>>, <<K_likes, PyInt(52)>>,
                 <<K_bookmarks, PyInt(683)>>, <<K_plays, PyStr(S_142488)>> >>)
NodeXboxNested == Obj(<< <<K_name, PyStr(S_XboxSeriesX)>>,
                         <<K_stats, Obj(<< <<K_likeCount, PyInt(16)>>, <<K_favorites, PyInt(159)>>,
                                           <<K_uses, PyInt(75599)>> >>)>> >>)
NodeDashThenAlias == Obj(<< <<K_platform, PyStr(<<>>)>>, <<K_code, PyStr(S_pc)>>,
                            <<K_likes, PyStr(WDashes)>>, <<K_likeCount, PyInt(5)>> >>)
NodeSwitchFirst == Obj(<< <<K_platform, PyStr(S_Switch)>>, <<K_name, PyStr(S_PC)>>,
                          <<K_likes, PyInt(7)>> >>)
NodeSteam == Obj(<< <<K_hardware, PyStr(S_SteamDeck)>>, <<K_plays, PyInt(4)>> >>)
NodeXboxNull == Obj(<< <<K_name, PyStr(S_Xbox)>>, <<K_likes, PyNone>>,
                       <<K_totalLikes, PyInt(9)>>, <<K_plays, PyStr(WDashes)>> >>)
NodeXboxNoStats == Obj(<< <<K_platform, PyStr(S_Xbox)>>, <<K_likes, PyStr(WDashes)>> >>)
NodeEmptyStats == Obj(<< <<K_platform, PyStr(S_PC)>>, <<K_stats, Obj(<<>>)>>,
                         <<K_likes, PyInt(3)>> >>)
NodeDictValued == Obj(<< <<K_platform, Obj(<< <<K_name, PyStr(S_Xbox)>> >>)>>,
                         <<K_bookmarks, Obj(<< <<S_count, PyInt(8)>> >>)>> >>)
NodeNoIndicator == Obj(<< <<K_likes, PyInt(11)>>, <<K_plays, PyInt(12)>> >>)
NodeTwoLevels == Obj(<< <<K_name, PyStr(S_PC)>>,
                        <<K_stats, Obj(<< <<K_name, PyStr(S_Xbox)>>, <<K_likes, PyInt(1)>> >>)>> >>)
NodeWindows == Obj(<< <<K_code, PyStr(S_Windows11)>>, <<K_favoriteCount, PyStr(S_1234)>>,
                      <<K_downloadCount, PyInt(0)>> >>)
NodeXboxLikesOnly == Obj(<< <<K_platform, PyStr(S_xbox)>>, <<K_likes, PyInt(2)>> >>)

Nodes == {NodePC, NodeXboxNested, NodeDashThenAlias, NodeSwitchFirst, NodeSteam,
          NodeXboxNull, NodeXboxNoStats, NodeEmptyStats, NodeDictValued,
          NodeNoIndicator, NodeTwoLevels, NodeWindows, NodeXboxLikesOnly}
\* what a list may hold besides objects
Scalars == {PyNone, PyInt(5), PyStr(S_PC), PyBool(TRUE)}

\* the values of a keyed collection (platform name -> stats object)
EntryFlat == Obj(<< <<K_likes, PyInt(21)>>, <<K_plays, PyInt(22)>> >>)
EntryNested == Obj(<< <<K_stats, Obj(<< <<K_likes, PyInt(7)>> >>)>> >>)
EntryDash == Obj(<< <<K_likeCount, PyStr(WDashes)>>, <<K_bookmarks, PyInt(23)>> >>)
EntryOwnIndicator == Obj(<< <<K_platform, PyStr(S_Xbox)>>, <<K_likes, PyInt(24)>> >>)
EntryValues == {EntryFlat, EntryNested, EntryDash, EntryOwnIndicator, PyInt(5)}
EntryKeys == {S_PC, S_xbox, S_Computer, S_Switch}

\* the top-level keys tried: the four known ones and one the scanner ignores
TopKeys == Range(SectionKeys) \cup {S_data}

\* {key: [item, ...]}
ListSections ==
    {Obj(<< <<k, PyList(items)>> >>) :
        k \in TopKeys, items \in SeqsOf(Nodes \cup Scalars, 0, MaxItems)}
\* {key: {platform name: value, ...}}, the names distinct
DictSections ==
    {Obj(<< <<k, Obj(kvs)>> >>) :
        k \in TopKeys,
        kvs \in {e \in SeqsOf(EntryKeys \X EntryValues, 1, MaxItems) :
                    \A i, j \in DOMAIN e : i # j => e[i][1] # e[j][1]}}

\* a node under d wrappers, each a one-key dict or a one-item list
RECURSIVE Wrapped(_, _)
Wrapped(S, d) ==
    IF d = 0 THEN S
    ELSE LET W == Wrapped(S, d - 1) IN
         W \cup {Obj(<< <<S_data, w>> >>) : w \in W} \cup {PyList(<<w>>) : w \in W}
Buried == Wrapped(Nodes, MaxDepth)

\* two nodes side by side, in a dict and in a list
Siblings ==
    {Obj(<< <<S_data, x>>, <<S_other, y>> >>) : x \in Nodes, y \in Nodes}
        \cup {PyList(<<x, y>>) : x \in Nodes, y \in Nodes}
\* a known section beside another node, in both orders
Mixed ==
    {Obj(<< <<K_platformStats, PyList(<<x>>)>>, <<S_other, y>> >>) : x \in Nodes, y \in Nodes}
        \cup {Obj(<< <<S_other, y>>, <<K_stats, Obj(<< <<k, v>> >>)>> >>) :
                y \in Nodes, k \in EntryKeys, v \in EntryValues}

Payloads == ListSections \cup DictSections \cup Buried \cup Siblings \cup Mixed \cup Scalars

\* the url argument, by what urlparse and extract_id_and_slug find in it
GoodUrl == [netloc |-> "creations.bethesda.net",
            creation_id |-> "0a1b2c3d-0000-4000-8000-00000000abcd", slug |-> "my-creation"]
OtherDomainUrl == [netloc |-> "example.com", creation_id |-> "None", slug |-> "None"]
Urls == {GoodUrl, OtherDomainUrl}
Dates == {"2026-01-01"}
Ident(u, d) == <<d, u.creation_id, u.slug, u>>

-----------------------------------------------------------------------------
(* Input texts: rendered page text, a sequence of platform blocks.         *)

\* the three counts shown in the block of each label
CountTokens(label) ==
    CASE label = WXbox -> <<<<"5","2">>, <<"6","8","3">>, <<"1","4","2",",","4","8","8">>>>
      [] label = WComputer -> <<<<"1","6">>, <<"1","5","9">>, <<"7","5",",","5","9","9">>>>
      [] label = WPC -> <<<<"3","1">>, <<"3","2">>, <<"3","3">>>>
      [] OTHER -> <<<<"4","1">>, <<"4","2">>, <<"4","3">>>>
BlockLabels == {WXbox, WComputer, WPC, S_Switch}
BlockShapes == {"full", "likesDash", "noBookmarks", "allDash", "bare"}
BlockKinds == BlockLabels \X BlockShapes

\* the words of one block, in reading order
BlockTokens(b) ==
    LET c == CountTokens(b[1]) IN
    <<b[1]>> \o
    CASE b[2] = "full" -> <<WLikes, c[1], WBookmarks, c[2], WPlays, c[3]>>
      [] b[2] = "likesDash" -> <<WLikes, WDashes, WBookmarks, c[2], WPlays, c[3]>>
      [] b[2] = "noBookmarks" -> <<WLikes, c[1], WPlays, c[3]>>
      [] b[2] = "allDash" -> <<WLikes, WDashes, WBookmarks, WDashes, WPlays, WDashes>>
      [] OTHER -> <<>>
RECURSIVE TextTokens(_)
TextTokens(blocks) ==
    IF blocks = <<>> THEN <<>> ELSE BlockTokens(Head(blocks)) \o TextTokens(Tail(blocks))
\* every word followed by end, but for the last one when last is FALSE
RECURSIVE Ended(_, _, _)
Ended(toks, end, last) ==
    IF toks = <<>> THEN <<>>
    ELSE IF Len(toks) = 1 /\ ~last THEN toks[1]
    ELSE toks[1] \o end \o Ended(Tail(toks), end, last)

\* "periods": the layout of find_platform_block's docstring, every word
\* followed by a period ("Xbox. Likes. 52. Bookmarks. 683. Plays. 142,488.");
\* "lines": one word per line, as inner_text renders stacked elements
TextStyles == {"periods", "lines"}
TextOf(style, blocks) ==
    IF blocks = <<>> THEN <<>>
    ELSE IF style = "periods" THEN Ended(TextTokens(blocks), <<".", " ">>, FALSE) \o <<".">>
    ELSE Ended(TextTokens(blocks), <<"\n">>, TRUE)
Texts == {TextOf(st, bs) : st \in TextStyles, bs \in SeqsOf(BlockKinds, 0, MaxBlocks)}

\* the texts handed to the coordinator: blocks of the three platform words,
\* with all counts, with a placeholder among them, and with placeholders only
CoordTexts ==
    {TextOf(st, bs) :
        st \in TextStyles,
        bs \in SeqsOf({WXbox, WComputer, WPC} \X {"full", "likesDash", "allDash"},
                      0, MaxBlocks)}

\* the payloads handed to the coordinator
CoordPayloads ==
    {PyNone,
     Obj(<< <<K_platformStats, PyList(<<NodeSteam>>)>> >>),
     Obj(<< <<S_data, PyList(<<NodeXboxLikesOnly>>)>> >>),
     Obj(<< <<S_data, PyList(<<NodeXboxLikesOnly, NodeWindows>>)>> >>),
     Obj(<< <<K_platforms, PyList(<<NodeXboxNoStats>>)>> >>)}

\* a text and a payload for one call: every coordinator text with every
\* coordinator payload, and payloads with two objects side by side with no
\* text and with a text that has both platforms
CoordInputs ==
    (CoordTexts \X CoordPayloads)
        \cup ({<<>>, TextOf("lines", << <<WXbox, "full">>, <<WComputer, "full">> >>)}
                 \X Siblings)

-----------------------------------------------------------------------------
(* scrape_one                                                              *)

UnknownRow(ident) == Row(ident, "Unknown", None, None, None)
\* lines 197-198, and again 208-209:
\*   pc = find_platform_block(text, "Computer") or find_platform_block(text, "PC")
\*   xbox = find_platform_block(text, "Xbox")
\* with the number of find_platform_block calls made (`or` evaluates its
\* second operand only when the first is None)
ParseBlocks(t) ==
    LET c == find_platform_block(t, WComputer) IN
    [pc |-> IF c.some THEN c ELSE find_platform_block(t, WPC),
     xbox |-> find_platform_block(t, WXbox),
     calls |-> IF c.some THEN 2 ELSE 3]
\* lines 211-233
TextRows(ident, p, x) ==
    (IF p.some THEN <<Row(ident, "PC", p.likes, p.bookmarks, p.plays)>> ELSE <<>>)
        \o (IF x.some THEN <<Row(ident, "Xbox", x.likes, x.bookmarks, x.plays)>> ELSE <<>>)
\* variant: the append without its guard
FallbackGuard_unguarded(rs, ident) == Append(rs, UnknownRow(ident))
\* one `if not rows: rows.append(<Unknown row>)`
FallbackGuard(rs, ident) == IF rs = <<>> THEN Append(rs, UnknownRow(ident)) ELSE rs

Idle == /\ payload = PyNone /\ scan_rows = <<>>
        /\ platform_label = <<>> /\ block = NoneBlock

Init ==
    /\ at = "start"
    /\ url \in Urls
    /\ run_date = ""
    /\ api_payload = PyNone
    /\ text = <<>>
    /\ pc = NoneBlock
    /\ xbox = NoneBlock
    /\ rows = <<>>
    /\ payload_rows = <<>>
    /\ text_rows = <<>>
    /\ stages = <<>>
    /\ fpb_calls = 0
    /\ Idle

\* lines 154-156: the domain check fails
Reject ==
    /\ at = "start"
    /\ url.netloc # "creations.bethesda.net"
    /\ at' = "raised"
    /\ UNCHANGED <<url, run_date, api_payload, text, pc, xbox, rows, payload_rows,
                   text_rows, stages, fpb_calls, payload, scan_rows, platform_label, block>>

\* lines 154-179: the domain check passes, the date is read and the page is
\* loaded.  api_payload is the structured payload the page load hands to the
\* stages below; line 161 sets it to None and this revision of the source
\* holds no later assignment, so PyNone is the value scrape_one itself
\* produces, and the other values are the payloads lines 203-204 are written for.
Load ==
    /\ at = "start"
    /\ url.netloc = "creations.bethesda.net"
    /\ \E d \in Dates, in \in CoordInputs :
          /\ run_date' = d
          /\ text' = in[1]
          /\ api_payload' = in[2]
    /\ at' = "parse"
    /\ UNCHANGED <<url, pc, xbox, rows, payload_rows, text_rows, stages, fpb_calls,
                   payload, scan_rows, platform_label, block>>

\* lines 197-198
ParseText ==
    /\ at = "parse"
    /\ \E r \in {ParseBlocks(text)} :
          /\ pc' = r.pc
          /\ xbox' = r.xbox
          /\ fpb_calls' = fpb_calls + r.calls
    /\ at' = "payload"
    /\ UNCHANGED <<url, run_date, api_payload, text, rows, payload_rows, text_rows,
                   stages, payload, scan_rows, platform_label, block>>

\* lines 200-204
PayloadStage ==
    /\ at = "payload"
    /\ IF api_payload # PyNone
       THEN /\ rows' = extract_rows_from_api_payload(api_payload, Ident(url, run_date))
            /\ stages' = Append(stages, "payload")
       ELSE /\ rows' = <<>>
            /\ stages' = stages
    /\ payload_rows' = rows'
    /\ at' = "text"
    /\ UNCHANGED <<url, run_date, api_payload, text, pc, xbox, text_rows, fpb_calls,
                   payload, scan_rows, platform_label, block>>

\* variant: lines 208-233 without the `if not rows` of line 207
TextStage_unguarded ==
    /\ at = "text"
    /\ \E r \in {ParseBlocks(text)} :
          /\ pc' = r.pc
          /\ xbox' = r.xbox
          /\ fpb_calls' = fpb_calls + r.calls
    /\ text_rows' = TextRows(Ident(url, run_date), pc', xbox')
    /\ rows' = rows \o text_rows'
    /\ stages' = Append(stages, "text")
    /\ at' = "fallback"
    /\ UNCHANGED <<url, run_date, api_payload, text, payload_rows,
                   payload, scan_rows, platform_label, block>>

\* lines 207-233
TextStage ==
    /\ at = "text"
    /\ IF rows = <<>>
       THEN /\ \E r \in {ParseBlocks(text)} :
                  /\ pc' = r.pc
                  /\ xbox' = r.xbox
                  /\ fpb_calls' = fpb_calls + r.calls
            /\ text_rows' = TextRows(Ident(url, run_date), pc', xbox')
            /\ rows' = rows \o text_rows'
            /\ stages' = Append(stages, "text")
       ELSE UNCHANGED <<pc, xbox, fpb_calls, text_rows, rows, stages>>
    /\ at' = "fallback"
    /\ UNCHANGED <<url, run_date, api_payload, text, payload_rows,
                   payload, scan_rows, platform_label, block>>

\* lines 235-271: the three Unknown guards and the return
Fallback ==
    /\ at = "fallback"
    /\ LET ident == Ident(url, run_date) IN
       rows' = FallbackGuard(FallbackGuard(FallbackGuard(rows, ident), ident), ident)
    /\ stages' = IF rows = <<>> THEN Append(stages, "unknown") ELSE stages
    /\ at' = "done"
    /\ UNCHANGED <<url, run_date, api_payload, text, pc, xbox, payload_rows, text_rows,
                   fpb_calls, payload, scan_rows, platform_label, block>>

Next == Reject \/ Load \/ ParseText \/ PayloadStage \/ TextStage \/ Fallback

Spec == Init /\ [][Next]_vars

-----------------------------------------------------------------------------
(* extract_rows_from_api_payload and find_platform_block on their own.     *)

NotScraping ==
    /\ url = GoodUrl /\ run_date \in Dates /\ api_payload = PyNone
    /\ pc = NoneBlock /\ xbox = NoneBlock /\ rows = <<>>
    /\ payload_rows = <<>> /\ text_rows = <<>> /\ stages = <<>> /\ fpb_calls = 0

InitScan ==
    /\ at = "call"
    /\ NotScraping
    /\ text = <<>> /\ platform_label = <<>> /\ block = NoneBlock
    /\ payload \in Payloads
    /\ scan_rows = <<>>

Scan ==
    /\ at = "call"
    /\ scan_rows' = extract_rows_from_api_payload(payload, Ident(url, run_date))
    /\ at' = "returned"
    /\ UNCHANGED <<url, run_date, api_payload, text, pc, xbox, rows, payload_rows,
                   text_rows, stages, fpb_calls, payload, platform_label, block>>

SpecScan == InitScan /\ [][Scan]_vars

InitText ==
    /\ at = "call"
    /\ NotScraping
    /\ payload = PyNone /\ scan_rows = <<>>
    /\ text \in Texts
    /\ platform_label \in {WComputer, WPC, WXbox}
    /\ block = NoneBlock

Parse ==
    /\ at = "call"
    /\ block' = find_platform_block(text, platform_label)
    /\ at' = "returned"
    /\ UNCHANGED <<url, run_date, api_payload, text, pc, xbox, rows, payload_rows,
                   text_rows, stages, fpb_calls, payload, scan_rows, platform_label>>

SpecText == InitText /\ [][Parse]_vars

-----------------------------------------------------------------------------
(* What the properties below are stated with.                              *)

HasRow(rs, p) == \E i \in DOMAIN rs : rs[i].platform = p
RowOf(rs, p) == rs[CHOOSE i \in DOMAIN rs : rs[i].platform = p]
Triple(r) == <<r.likes, r.bookmarks, r.plays>>
NoStats == <<None, None, None>>
Platforms == {"PC", "Xbox"}

\* every object (dict) of a tree, at any depth
RECURSIVE AllObjects(_)
AllObjects(v) ==
    IF IsDict(v) THEN {v} \cup UNION {AllObjects(v.items[i][2]) : i \in DOMAIN v.items}
    ELSE IF IsList(v) THEN UNION {AllObjects(v.items[i]) : i \in DOMAIN v.items}
    ELSE {}
\* the objects of a tree in the order the generic pass visits them: an
\* object before its children, children in order
RECURSIVE PreOrder(_)
RECURSIVE PreOrderAll(_)
PreOrder(v) ==
    IF IsDict(v) THEN <<v>> \o PreOrderAll(Values(v))
    ELSE IF IsList(v) THEN PreOrderAll(v.items)
    ELSE <<>>
PreOrderAll(vs) == IF vs = <<>> THEN <<>> ELSE PreOrder(Head(vs)) \o PreOrderAll(Tail(vs))

\* a candidate: <<platform, <<likes, bookmarks, plays>>>>
NodeCandidate(n) == <<normalize_platform(Indicator(n)), stats_from(StatsSource(n))>>
Qualifies(c) == c[1] \in Platforms /\ c[2] # NoStats
\* the candidates of one known section, in order
SectionCandidates(section) ==
    IF IsList(section)
    THEN LET objs == SelectSeq(section.items, IsDict) IN
         [i \in DOMAIN objs |-> NodeCandidate(objs[i])]
    ELSE IF IsDict(section)
    THEN [i \in DOMAIN section.items |->
            <<normalize_platform(PyStr(section.items[i][1])),
              stats_from(section.items[i][2])>>]
    ELSE <<>>
KnownCandidates(p) ==
    IF ~IsDict(p) THEN <<>>
    ELSE SectionCandidates(Get(p, SectionKeys[1])) \o SectionCandidates(Get(p, SectionKeys[2]))
            \o SectionCandidates(Get(p, SectionKeys[3])) \o SectionCandidates(Get(p, SectionKeys[4]))
WalkCandidates(p) == LET objs == PreOrder(p) IN [i \in DOMAIN objs |-> NodeCandidate(objs[i])]
\* the qualifying candidates of a scan in processing order
Candidates(p) == SelectSeq(KnownCandidates(p) \o WalkCandidates(p), Qualifies)

HasKnownKey(p) == IsDict(p) /\ \E i \in DOMAIN SectionKeys : HasKey(p, SectionKeys[i])
HasKeyedSection(p) ==
    IsDict(p) /\ \E i \in DOMAIN SectionKeys : IsDict(Get(p, SectionKeys[i]))

\* the stat of an object by "the first alias whose value is not null decides"
StatByFirstNonNull(d, keys) ==
    LET hits == {i \in DOMAIN keys : HasKey(d, keys[i]) /\ Get(d, keys[i]) # PyNone} IN
    IF hits = {} THEN None ELSE digits_to_int(Get(d, keys[SetMin(hits)]))
\* the stat of an object by "the first alias whose value holds a digit decides"
StatByFirstWithDigit(d, keys) ==
    LET hits == {i \in DOMAIN keys :
                    HasKey(d, keys[i]) /\ OnlyDigits(Str(Get(d, keys[i]))) # <<>>} IN
    IF hits = {} THEN None ELSE ParseInt(OnlyDigits(Str(Get(d, keys[SetMin(hits)]))))
TripleByFirstNonNull(d) ==
    <<StatByFirstNonNull(d, LikesKeys), StatByFirstNonNull(d, BookmarksKeys),
      StatByFirstNonNull(d, PlaysKeys)>>
TripleByFirstWithDigit(d) ==
    <<StatByFirstWithDigit(d, LikesKeys), StatByFirstWithDigit(d, BookmarksKeys),
      StatByFirstWithDigit(d, PlaysKeys)>>

\* what each stage yields for the inputs of a call, computed from the inputs
PayloadYield ==
    IF api_payload = PyNone THEN <<>>
    ELSE extract_rows_from_api_payload(api_payload, Ident(url, run_date))
TextYield ==
    LET c == find_platform_block(text, WComputer)
        p == IF c.some THEN c ELSE find_platform_block(text, WPC)
    IN  TextRows(Ident(url, run_date), p, find_platform_block(text, WXbox))

\* at most one row per platform, and a PC row before an Xbox row
OnePerPlatformInOrder(rs) ==
    /\ \A i, j \in DOMAIN rs : rs[i].platform = rs[j].platform => i = j
    /\ \A i, j \in DOMAIN rs : rs[i].platform = "PC" /\ rs[j].platform = "Xbox" => i < j

-----------------------------------------------------------------------------
(* The claims.                                                             *)

C2_UnknownIffNoEvidence ==
    at = "done" =>
        /\ Len(rows) >= 1
        /\ HasRow(rows, "Unknown") <=> (PayloadYield = <<>> /\ TextYield = <<>>)
        /\ HasRow(rows, "Unknown") =>
              /\ Len(rows) = 1
              /\ Triple(rows[1]) = NoStats
\* C2 witness: no payload, a text with platform words but no counts, and the
\* single Unknown row returned
C2_Witness ==
    /\ at = "done"
    /\ api_payload = PyNone
    /\ text = TextOf("lines", << <<WXbox, "allDash">>, <<WComputer, "allDash">> >>)
    /\ rows = <<UnknownRow(Ident(url, run_date))>>

\* C3: the rows of one call come from a single stage: the payload's rows when
\* it yields any (whatever the text holds), else the text's rows when it
\* yields any, else the Unknown row alone; no row of the text is returned
\* beside a payload row.
C3_SingleStage ==
    at = "done" =>
        /\ PayloadYield # <<>> =>
              /\ rows = PayloadYield
              /\ \A i \in DOMAIN rows : rows[i] \notin Range(TextYield)
        /\ (PayloadYield = <<>> /\ TextYield # <<>>) => rows = TextYield
        /\ (PayloadYield = <<>> /\ TextYield = <<>>) =>
              rows = <<UnknownRow(Ident(url, run_date))>>
\* C3 witness: the payload yields a PC row only, the text has a parseable
\* Xbox block, and the payload row alone is returned
C3_Witness ==
    /\ at = "done"
    /\ Len(PayloadYield) = 1
    /\ PayloadYield[1].platform = "PC"
    /\ HasRow(TextYield, "Xbox")
    /\ rows = PayloadYield

\* C4: in a text laid out as the docstring shows, every word followed by a
\* period ("Xbox. Likes. 52. Bookmarks. 683. Plays. 142,488. Computer. ..."),
\* the Xbox block parses to {52, 683, 142488} and the Computer block to
\* {16, 159, 75599}.
C4_PeriodLayoutParses ==
    (/\ at = "returned"
     /\ text = TextOf("periods", << <<WXbox, "full">>, <<WComputer, "full">> >>)) =>
        /\ platform_label = WXbox => block = SomeBlock(52, 683, 142488)
        /\ platform_label = WComputer => block = SomeBlock(16, 159, 75599)

\* C5: an entry of a keyed collection under a known top-level key is handled
\* as a list item is, its key being the platform indicator: when the key
\* normalises to a platform and the entry's stats (from its nested "stats"
\* object if it has one, else from the entry itself) are not all None, the
\* platform has a row.
C5_KeyedEntryUsesNestedStats ==
    (at = "returned" /\ IsDict(payload)) =>
        \A k \in Range(SectionKeys) :
            IsDict(Get(payload, k)) =>
                \A i \in DOMAIN Get(payload, k).items :
                    LET e == Get(payload, k).items[i] IN
                    (/\ IsDict(e[2])
                     /\ normalize_platform(PyStr(e[1])) \in Platforms
                     /\ stats_from(StatsSource(e[2])) # NoStats)
                        => HasRow(scan_rows, normalize_platform(PyStr(e[1])))

\* C6: with no known top-level key, a platform has a row exactly when some
\* object of the tree, at any depth, has an indicator that normalises to it
\* and at least one stat that is not None.
C6_GenericPassFindsEveryObject ==
    (at = "returned" /\ ~HasKnownKey(payload)) =>
        \A p \in Platforms :
            HasRow(scan_rows, p) <=>
                \E n \in AllObjects(payload) :
                    NodeCandidate(n)[1] = p /\ NodeCandidate(n)[2] # NoStats
\* C6 witness: an object three levels deep, under dicts and a list, found
C6_Witness ==
    /\ at = "returned"
    /\ payload = Obj(<< <<S_data, Obj(<< <<S_data, PyList(<<NodeXboxNested>>)>> >>)>> >>)
    /\ Len(scan_rows) = 1
    /\ scan_rows[1].platform = "Xbox"
    /\ Triple(scan_rows[1]) = <<16, 159, 75599>>

\* C7: the rows the scanner returns and the rows the coordinator returns hold
\* at most one row per platform, and a PC row comes before an Xbox row.
C7_OnePerPlatformPCFirst ==
    /\ OnePerPlatformInOrder(payload_rows)
    /\ OnePerPlatformInOrder(rows)
\* C7 witness: Xbox found before PC in the payload, PC returned first
C7_Witness ==
    /\ at = "done"
    /\ api_payload = Obj(<< <<S_data, PyList(<<NodeXboxLikesOnly, NodeWindows>>)>> >>)
    /\ Len(rows) = 2
    /\ rows[1].platform = "PC"
    /\ rows[2].platform = "Xbox"

\* C8: the row of a platform carries the whole triple of the last qualifying
\* candidate for it in processing order (known-shape pass, then the walk,
\* each object before its children); a platform with no qualifying candidate
\* has no row.
C8_LastCandidateWinsWhole ==
    at = "returned" =>
        \A p \in Platforms :
            LET cs == SelectSeq(Candidates(payload), LAMBDA c : c[1] = p) IN
            IF cs = <<>> THEN ~HasRow(scan_rows, p)
            ELSE HasRow(scan_rows, p) /\ Triple(RowOf(scan_rows, p)) = cs[Len(cs)][2]
\* C8 witness: a known section gives PC likes 52, bookmarks 683 and plays
\* 142488, an object the walk meets later gives PC plays 4 only, and the row
\* has plays 4 and neither likes nor bookmarks
C8_Witness ==
    /\ at = "returned"
    /\ payload = Obj(<< <<K_platformStats, PyList(<<NodePC>>)>>, <<S_other, NodeSteam>> >>)
    /\ scan_rows = <<Row(Ident(url, run_date), "PC", None, None, 4)>>

\* C9 as claimed: the first alias whose value is not null decides the stat
\* alone, so that every returned triple is the triple some object of the
\* payload has by that rule.
C9_FirstNonNullAliasDecides ==
    at = "returned" =>
        \A i \in DOMAIN scan_rows :
            \E d \in AllObjects(payload) : TripleByFirstNonNull(d) = Triple(scan_rows[i])
\* C9 as amended: the first alias whose value holds a digit decides the stat
\* (a value without a digit, such as "---", is passed over for the next
\* alias): every returned triple is the triple some object has by that rule,
\* and a payload that is a single object with a platform yields that triple.
C9_FirstAliasWithDigitDecides ==
    at = "returned" =>
        /\ \A i \in DOMAIN scan_rows :
              \E d \in AllObjects(payload) : TripleByFirstWithDigit(d) = Triple(scan_rows[i])
        /\ (AllObjects(payload) = {payload} /\ NodeCandidate(payload)[1] \in Platforms) =>
              scan_rows = IF TripleByFirstWithDigit(payload) = NoStats THEN <<>>
                          ELSE <<Row(Ident(url, run_date), NodeCandidate(payload)[1],
                                     TripleByFirstWithDigit(payload)[1],
                                     TripleByFirstWithDigit(payload)[2],
                                     TripleByFirstWithDigit(payload)[3])>>
\* C9 witness: likes "---" and likeCount 5 give likes 5
C9_Witness ==
    /\ at = "returned"
    /\ payload = NodeDashThenAlias
    /\ scan_rows = <<Row(Ident(url, run_date), "PC", 5, None, None)>>

\* C10: when no known top-level key maps to a keyed collection, the scan
\* returns what the generic pass alone returns.
C10_ListSectionsAddNothing ==
    (at = "returned" /\ ~HasKeyedSection(payload)) =>
        scan_rows = InPlatformOrder(walk(<<>>, Ident(url, run_date), payload))
\* C10 witness: a list under a known key, its item returned
C10_Witness ==
    /\ at = "returned"
    /\ payload = Obj(<< <<K_platformStats, PyList(<<NodeXboxNested>>)>> >>)
    /\ Len(scan_rows) = 1
    /\ Triple(scan_rows[1]) = <<16, 159, 75599>>

=============================================================================
